---- MODULE Spec2Model ----
(***************************************************************************)
(* Model of the sandboxed analysis tool run_python_analysis of             *)
(* data_analyst_agent_app/agent.py.  A call builds a namespace, executes   *)
(* the statements of the snippet one by one under a redirected stdout,     *)
(* and then harvests the open matplotlib figures and the `result` binding  *)
(* into the returned payload.  The matplotlib figure registry is the only  *)
(* program state that outlives a call.                                     *)
(*                                                                         *)
(* Text (stdout, repr, tracebacks) is a sequence of tokens.                *)
(***************************************************************************)
EXTENDS Integers, Sequences, FiniteSets, TLC

\* ---------------------------------------------------------------- bounds
MaxOps == 3        \* statements a snippet executes before it must finish
MaxNum == 2        \* largest figure number in the registry

Texts == {"a", "b"}                  \* arguments of print
LookupNames == {"result", "x", "len", "open"}   \* names a snippet reads
ModuleNames == {"pd", "np", "plt", "px"}        \* modules a snippet uses

\* ------------------------------------------------------------------ state
VARIABLES
    pc,              \* "idle", "exec" (inside exec()), "harvest" (after it)
    plotly,          \* whether plotly can be imported in this process
    safe_globals,    \* the globals mapping of the running call
    sandbox_locals,  \* the locals mapping of the running call
    stdout_buffer,   \* the StringIO that stdout is redirected to
    figs,            \* matplotlib's registry: open figure numbers, oldest first
    bad,             \* open figures whose savefig raises
    ret,             \* how the last call ended: payload or escaped exception
    steps,           \* statements executed by the running snippet
    prev,            \* how the call before the running one ended
    hist,            \* history of the running call, for stating properties
    \* the metadata catalog (metadata_utils.py)
    files,           \* the documents of the metadata directory, by path order
    cache,           \* the lru_cache of _load_all_metadata
    scans,           \* how often the directory has been scanned
    cpc,             \* the process: "start", "up" (agent imported), "crashed"
    thr,             \* the host's threads inside a catalog operation
    snap,            \* what the lookups returned right after the load
    \* one call of a function of metadata_utils.py
    fin,             \* the function and its arguments
    fout,            \* what it returned
    \* one call of compose_dashboard
    cin,             \* its arguments
    cst,             \* its progress and its outcome
    \* two calls of run_python_analysis on two threads of the host
    ov               \* sys.stdout, pyplot's figures and the two calls

\* the state of the sandboxed analysis tool
sandbox == <<pc, plotly, safe_globals, sandbox_locals, stdout_buffer, figs,
             bad, ret, steps, prev, hist>>
\* the state of the other components
catvars == <<files, cache, scans, cpc, thr, snap>>
fnvars  == <<fin, fout>>
cmpvars == <<cin, cst>>
others  == <<catvars, fnvars, cmpvars, ov>>

vars == <<pc, plotly, safe_globals, sandbox_locals, stdout_buffer, figs, bad,
          ret, steps, prev, hist, others>>

\* a component that takes no part in the specification at hand
CatParked == /\ files = <<>> /\ cache = <<>> /\ scans = 0
             /\ cpc = "start" /\ thr = <<>> /\ snap = <<>>
FnParked  == fin = <<>> /\ fout = <<>>
CmpParked == cin = <<>> /\ cst = <<>>
OvParked  == ov = <<>>

\* ---------------------------------------------------------------- values
Val(k, n, i, c, r) ==
    [kind |-> k, num |-> n, id |-> i, columns |-> c, rows |-> r]

IntVal(n)      == Val("int", n, "", <<>>, <<>>)
FrameVal(c, r) == Val("frame", 0, "", c, r)
\* a list nested deeper than the recursion limit: repr() raises on it
DeepVal        == Val("deep", 0, "", <<>>, <<>>)
ModuleVal(m)   == Val("module", 0, m, <<>>, <<>>)
FuncVal(f)     == Val("function", 0, f, <<>>, <<>>)

Values == { IntVal(1 + 1),
            IntVal(-13),
            FrameVal(<<"region", "score">>, << <<7, 3>>, <<8, 4>> >>),
            DeepVal }

\* the assignments a snippet makes
Bindings == { <<"result", v>> : v \in Values } \cup { <<"x", IntVal(7)>> }

\* ------------------------------------------------------------- namespace
\* the closed whitelist of built-ins
allowed_builtins ==
    { "abs", "all", "any", "bool", "dict", "enumerate", "float", "int",
      "len", "list", "max", "min", "pow", "print", "range", "round", "set",
      "sorted", "str", "sum", "tuple", "zip" }

\* built-ins of the interpreter that a snippet may try to name
DangerousBuiltins == { "__import__", "open", "eval", "exec", "getattr" }

\* what calling a built-in gives the caller access to
BuiltinCaps(b) ==
    CASE b = "open"       -> {"fs"}
      [] b = "__import__" -> {"import"}
      [] b \in {"eval", "exec", "getattr"} -> {"import"}
      [] OTHER            -> {}

\* globals handed to exec: only the filtered __builtins__ mapping
build_safe_globals == [n \in {"__builtins__"} |-> allowed_builtins]

\* the helper objects bound in the locals of every call; the plotly
\* helpers are bound only where plotly can be imported
PlotlyLocals ==
    [n \in {"px", "plotly_express"} |-> ModuleVal("plotly.express")]
    @@ [n \in {"go", "plotly_graph_objects"} |-> ModuleVal("plotly.graph_objects")]
    @@ [n \in {"compose_dashboard"} |-> FuncVal("compose_dashboard")]

\* the locals kept in a mapping that outlives the call
build_sandbox_locals_kept(withPlotly) ==
    IF DOMAIN sandbox_locals # {} THEN sandbox_locals
    ELSE [n \in {"pd", "pandas"} |-> ModuleVal("pandas")]
         @@ [n \in {"np", "numpy"} |-> ModuleVal("numpy")]
         @@ [n \in {"plt"} |-> ModuleVal("matplotlib.pyplot")]
         @@ (IF withPlotly THEN PlotlyLocals ELSE <<>>)

build_sandbox_locals(withPlotly) ==
    LET base == [n \in {"pd", "pandas"} |-> ModuleVal("pandas")]
                @@ [n \in {"np", "numpy"} |-> ModuleVal("numpy")]
                @@ [n \in {"plt"} |-> ModuleVal("matplotlib.pyplot")]
    IN  IF withPlotly THEN base @@ PlotlyLocals ELSE base

\* what attribute access on a bound module object reaches:
\*   pandas: read_csv(path), read_csv(url), io.common.os
\*   numpy: load / save / loadtxt
\*   matplotlib.pyplot: savefig(path), importlib
\*   plotly: Figure.write_html / write_image
ModuleCaps(m) ==
    CASE m = "pandas"            -> {"fs", "net", "import"}
      [] m = "numpy"             -> {"fs"}
      [] m = "matplotlib.pyplot" -> {"fs", "import"}
      [] OTHER                   -> {"fs"}

\* ------------------------------------------------------------ exceptions
\* classes derived from Exception: the ones `except Exception` catches
ExceptionClasses ==
    { "SyntaxError", "ZeroDivisionError", "NameError", "ImportError",
      "ValueError", "RecursionError" }

\* traceback.format_exc(): the header and the exception's class
format_exc(kind) == <<"Traceback (most recent call last):", kind>>

\* ------------------------------------------------------------ conversions
Digit(d) ==
    CASE d = 0 -> "0" [] d = 1 -> "1" [] d = 2 -> "2" [] d = 3 -> "3"
      [] d = 4 -> "4" [] d = 5 -> "5" [] d = 6 -> "6" [] d = 7 -> "7"
      [] d = 8 -> "8" [] d = 9 -> "9"

RECURSIVE Digits(_)
Digits(n) == IF n < 10 THEN <<Digit(n)>>
             ELSE Digits(n \div 10) \o <<Digit(n % 10)>>

\* repr() of a non-frame value
Repr(v) ==
    CASE v.kind = "int"    -> IF v.num < 0 THEN <<"-">> \o Digits(-v.num)
                              ELSE Digits(v.num)
      [] v.kind = "module" -> <<"<module ", v.id, ">">>
      [] OTHER             -> <<"<", v.kind, ">">>

ReprRaises(v) == v.kind = "deep"

\* DataFrame.to_dict(orient="records"): one ordered mapping per row
to_dict_records(v) ==
    [i \in 1..Len(v.rows) |->
        [j \in 1..Len(v.columns) |-> <<v.columns[j], v.rows[i][j]>>]]

Png(num)  == <<"png", num>>
B64(data) == <<"base64", data>>

\* ascending sort of a set of numbers, as a sequence
RECURSIVE SortedSeq(_)
SortedSeq(S) ==
    IF S = {} THEN <<>>
    ELSE LET m == CHOOSE x \in S : \A y \in S : x <= y
         IN  <<m>> \o SortedSeq(S \ {m})

Range(s) == { s[i] : i \in DOMAIN s }

\* the registry's own order instead of the sorted one
get_fignums_unsorted(registry) == registry

\* plt.get_fignums(): sorted(Gcf.figs)
get_fignums(registry) == SortedSeq(Range(registry))

Remove(s, x) == SelectSeq(s, LAMBDA y : y # x)

NoReturn      == [kind |-> "none", env |-> <<>>, exc |-> ""]
Returned(env) == [kind |-> "envelope", env |-> env, exc |-> ""]
Escaped(exc)  == [kind |-> "raised", env |-> <<>>, exc |-> exc]

hist0 ==
    [ printed  |-> <<>>,   \* text the snippet printed
      own      |-> <<>>,   \* figures it created that are still open, in order
      made     |-> FALSE,  \* whether it created any figure
      mine     |-> {},     \* names it bound
      local    |-> {},     \* names it bound by a top-level assignment
      seen     |-> {},     \* names it read
      caps     |-> {},     \* capabilities it exercised
      spin     |-> 0,      \* 0, or 1 and 2 in turn inside an endless loop
      openDone |-> <<>>,   \* figures open when it completed, oldest first
      failed   |-> FALSE ] \* whether anything raised during the call

\* what the next call remembers of a call that ended as r
Figures(env) == IF "figures" \in DOMAIN env THEN env["figures"] ELSE <<>>

Outcome(r) ==
    [ kind    |-> CASE r.kind = "none"   -> "none"
                    [] r.kind = "raised" -> "raised"
                    [] "error" \in DOMAIN r.env -> "error"
                    [] OTHER             -> "ok",
      result  |-> "result" \in DOMAIN r.env,
      figures |-> Len(Figures(r.env)) ]

\* the sandbox before its first call, taking no part
SandboxParked ==
    /\ pc = "idle"
    /\ plotly = FALSE
    /\ safe_globals = <<>>
    /\ sandbox_locals = <<>>
    /\ stdout_buffer = <<>>
    /\ figs = <<>>
    /\ bad = {}
    /\ ret = NoReturn
    /\ steps = 0
    /\ prev = Outcome(NoReturn)
    /\ hist = hist0

Init ==
    /\ CatParked /\ FnParked /\ CmpParked /\ OvParked
    /\ pc = "idle"
    /\ plotly \in BOOLEAN
    /\ safe_globals = <<>>
    /\ sandbox_locals = <<>>
    /\ stdout_buffer = <<>>
    /\ figs = <<>>
    /\ bad = {}
    /\ ret = NoReturn
    /\ steps = 0
    /\ prev = Outcome(NoReturn)
    /\ hist = hist0

\* entry of run_python_analysis: a new namespace and a new buffer
Invoke ==
    /\ pc = "idle"
    /\ pc' = "exec"
    /\ safe_globals' = build_safe_globals
    /\ sandbox_locals' = build_sandbox_locals(plotly)
    /\ stdout_buffer' = <<>>
    /\ ret' = NoReturn
    /\ steps' = 0
    /\ prev' = Outcome(ret)
    /\ hist' = hist0
    /\ UNCHANGED <<plotly, figs, bad>>
    /\ UNCHANGED others

\* the error payload built with an empty stdout
Throw_emptyStdout(kind) ==
    /\ pc' = "idle"
    /\ ret' = IF kind \in ExceptionClasses
              THEN Returned([stdout |-> <<>>,
                             error  |-> format_exc(kind)])
              ELSE Escaped(kind)
    /\ hist' = [hist EXCEPT !.failed = TRUE]
    /\ UNCHANGED <<plotly, safe_globals, sandbox_locals, stdout_buffer,
                   figs, bad, steps, prev>>
    /\ UNCHANGED others

\* an exception of class `kind` leaves exec(): `except Exception` turns it
\* into the error payload, anything else propagates to the caller
Throw(kind) ==
    /\ pc' = "idle"
    /\ ret' = IF kind \in ExceptionClasses
              THEN Returned([stdout |-> stdout_buffer,
                             error  |-> format_exc(kind)])
              ELSE Escaped(kind)
    /\ hist' = [hist EXCEPT !.failed = TRUE]
    /\ UNCHANGED <<plotly, safe_globals, sandbox_locals, stdout_buffer,
                   figs, bad, steps, prev>>
    /\ UNCHANGED others

\* compile() rejects the snippet before any statement runs
CompileError ==
    /\ pc = "exec" /\ steps = 0 /\ hist.spin = 0
    /\ Throw("SyntaxError")

\* a statement may run
Running == pc = "exec" /\ steps < MaxOps /\ hist.spin = 0

\* name resolution of top-level code: locals, then globals, then built-ins
Bound(n) ==
    \/ n \in DOMAIN sandbox_locals
    \/ n \in DOMAIN safe_globals
    \/ n \in safe_globals["__builtins__"]

\* print(t)
PrintText(t) ==
    /\ Running
    /\ IF Bound("print")
       THEN /\ stdout_buffer' = stdout_buffer \o <<t, "\n">>
            /\ hist' = [hist EXCEPT !.printed = @ \o <<t, "\n">>]
            /\ steps' = steps + 1
            /\ UNCHANGED <<pc, ret>>
       ELSE /\ Throw("NameError")
    /\ UNCHANGED <<plotly, safe_globals, sandbox_locals, figs, bad, prev>>
    /\ UNCHANGED others

\* name = value at top level: a binding in the locals
Assign(n, v) ==
    /\ Running
    /\ sandbox_locals' = (n :> v) @@ sandbox_locals
    /\ hist' = [hist EXCEPT !.mine = @ \cup {n}, !.local = @ \cup {n}]
    /\ steps' = steps + 1
    /\ UNCHANGED <<pc, plotly, safe_globals, stdout_buffer, figs, bad, ret,
                   prev>>
    /\ UNCHANGED others

\* global name; name = value: a binding in the globals
AssignGlobal(n, v) ==
    /\ Running
    /\ safe_globals' = (n :> v) @@ safe_globals
    /\ hist' = [hist EXCEPT !.mine = @ \cup {n}]
    /\ steps' = steps + 1
    /\ UNCHANGED <<pc, plotly, sandbox_locals, stdout_buffer, figs, bad, ret,
                   prev>>
    /\ UNCHANGED others

\* an expression that reads (and, for a built-in, calls) the name n
Lookup(n) ==
    /\ Running
    /\ IF Bound(n)
       THEN /\ hist' = [hist EXCEPT
                  !.seen = @ \cup {n},
                  !.caps = IF n \in DOMAIN sandbox_locals
                              \/ n \in DOMAIN safe_globals
                           THEN @ ELSE @ \cup BuiltinCaps(n)]
            /\ steps' = steps + 1
            /\ UNCHANGED <<pc, ret>>
       ELSE /\ Throw("NameError")
    /\ UNCHANGED <<plotly, safe_globals, sandbox_locals, stdout_buffer, figs,
                   bad, prev>>
    /\ UNCHANGED others

\* import m: the statement calls the built-in __import__
ImportStmt ==
    /\ Running
    /\ IF "__import__" \in safe_globals["__builtins__"]
       THEN /\ hist' = [hist EXCEPT !.caps = @ \cup {"import"}]
            /\ steps' = steps + 1
            /\ UNCHANGED <<pc, ret>>
       ELSE /\ Throw("ImportError")
    /\ UNCHANGED <<plotly, safe_globals, sandbox_locals, stdout_buffer, figs,
                   bad, prev>>
    /\ UNCHANGED others

\* an attribute chain from the module bound to n that ends in a file
\* operation, a network operation or a module that was not bound
UseModule(n, cap) ==
    /\ Running
    /\ n \in DOMAIN sandbox_locals
    /\ sandbox_locals[n].kind = "module"
    /\ cap \in ModuleCaps(sandbox_locals[n].id)
    /\ hist' = [hist EXCEPT !.caps = @ \cup {cap}]
    /\ steps' = steps + 1
    /\ UNCHANGED <<pc, plotly, safe_globals, sandbox_locals, stdout_buffer,
                   figs, bad, ret, prev>>
    /\ UNCHANGED others

\* a statement that faults, such as x = 1/0
Raise ==
    /\ Running
    /\ Throw("ZeroDivisionError")

\* plt.figure(): a new figure numbered one past the largest open number
NewFigure ==
    /\ Running
    /\ LET nums == Range(figs)
           num  == IF nums = {} THEN 1
                   ELSE (CHOOSE m \in nums : \A k \in nums : k <= m) + 1
       IN  /\ num <= MaxNum
           /\ figs' = Append(figs, num)
           /\ hist' = [hist EXCEPT !.own = Append(@, num), !.made = TRUE]
    /\ steps' = steps + 1
    /\ UNCHANGED <<pc, plotly, safe_globals, sandbox_locals, stdout_buffer,
                   bad, ret, prev>>
    /\ UNCHANGED others

\* plt.figure(num): the open figure of that number, or a new one
FigureNum(num) ==
    /\ Running
    /\ IF num \in Range(figs)
       THEN UNCHANGED <<figs, hist>>
       ELSE /\ figs' = Append(figs, num)
            /\ hist' = [hist EXCEPT !.own = Append(@, num), !.made = TRUE]
    /\ steps' = steps + 1
    /\ UNCHANGED <<pc, plotly, safe_globals, sandbox_locals, stdout_buffer,
                   bad, ret, prev>>
    /\ UNCHANGED others

\* plt.close(num)
CloseFigure(num) ==
    /\ Running
    /\ num \in Range(figs)
    /\ figs' = Remove(figs, num)
    /\ bad' = bad \ {num}
    /\ hist' = [hist EXCEPT !.own = Remove(@, num)]
    /\ steps' = steps + 1
    /\ UNCHANGED <<pc, plotly, safe_globals, sandbox_locals, stdout_buffer,
                   ret, prev>>
    /\ UNCHANGED others

\* drawing on figure num something savefig cannot render, such as a title
\* with malformed mathtext
Spoil(num) ==
    /\ Running
    /\ num \in Range(figs)
    /\ num \notin bad
    /\ bad' = bad \cup {num}
    /\ steps' = steps + 1
    /\ UNCHANGED <<pc, plotly, safe_globals, sandbox_locals, stdout_buffer,
                   figs, ret, prev, hist>>
    /\ UNCHANGED others

\* one iteration of a loop that never ends, such as `while True: pass`;
\* no statement after the loop is ever reached
Spin ==
    /\ pc = "exec"
    /\ hist' = [hist EXCEPT !.spin = IF @ = 1 THEN 2 ELSE 1]
    /\ UNCHANGED <<pc, plotly, safe_globals, sandbox_locals, stdout_buffer,
                   figs, bad, ret, steps, prev>>
    /\ UNCHANGED others

\* the last statement has run: exec() returns
Finish ==
    /\ pc = "exec" /\ hist.spin = 0
    /\ pc' = "harvest"
    /\ hist' = [hist EXCEPT !.openDone = figs]
    /\ UNCHANGED <<plotly, safe_globals, sandbox_locals, stdout_buffer, figs,
                   bad, ret, steps, prev>>
    /\ UNCHANGED others

\* the figures left open
close_all_skipped(registry) == registry

\* plt.close("all"): the registry afterwards
close_all(registry) == <<>>

\* the figures list: every open figure, in get_fignums() order, saved as
\* PNG and base64-encoded
RenderAll(registry) ==
    LET nums == get_fignums(registry)
    IN  [i \in 1..Len(nums) |-> B64(Png(nums[i]))]

\* payload["result"]
Serialise(v) ==
    IF v.kind = "frame"
    THEN [type    |-> "dataframe",
          columns |-> v.columns,
          records |-> to_dict_records(v)]
    ELSE Repr(v)

\* `result` looked up in the globals as well as in the locals
Payload_anyScope(out, locals, figures) ==
    [k \in {"stdout"} |-> out]
    @@ (IF "result" \in DOMAIN locals \cup DOMAIN safe_globals
        THEN [k \in {"result"} |->
                 Serialise((locals @@ safe_globals)["result"])]
        ELSE <<>>)
    @@ (IF figures # <<>> THEN [k \in {"figures"} |-> figures] ELSE <<>>)

\* the payload of a call whose snippet completed
Payload(out, locals, figures) ==
    [k \in {"stdout"} |-> out]
    @@ (IF "result" \in DOMAIN locals
        THEN [k \in {"result"} |-> Serialise(locals["result"])]
        ELSE <<>>)
    @@ (IF figures # <<>> THEN [k \in {"figures"} |-> figures] ELSE <<>>)

\* after exec(): save and close the open figures, serialise `result`,
\* return the payload.  Nothing here is inside the try block.
Harvest ==
    /\ pc = "harvest"
    /\ pc' = "idle"
    /\ IF Range(figs) \cap bad # {}
       THEN \* savefig raises; the figures stay open
            /\ ret' = Escaped("ValueError")
            /\ hist' = [hist EXCEPT !.failed = TRUE]
            /\ UNCHANGED <<figs, bad>>
       ELSE /\ figs' = close_all(figs)
            /\ bad' = bad \cap Range(close_all(figs))
            /\ IF /\ "result" \in DOMAIN sandbox_locals
                  /\ sandbox_locals["result"].kind # "frame"
                  /\ ReprRaises(sandbox_locals["result"])
               THEN /\ ret' = Escaped("RecursionError")
                    /\ hist' = [hist EXCEPT !.failed = TRUE]
               ELSE /\ ret' = Returned(Payload(stdout_buffer, sandbox_locals,
                                               RenderAll(figs)))
                    /\ UNCHANGED hist
    /\ UNCHANGED <<plotly, safe_globals, sandbox_locals, stdout_buffer, steps,
                   prev>>
    /\ UNCHANGED others

Next ==
    \/ Invoke
    \/ CompileError
    \/ \E t \in Texts : PrintText(t)
    \/ \E b \in Bindings : Assign(b[1], b[2])
    \/ \E b \in Bindings : AssignGlobal(b[1], b[2])
    \/ \E n \in LookupNames : Lookup(n)
    \/ ImportStmt
    \/ \E n \in ModuleNames, cap \in {"fs", "net", "import"} : UseModule(n, cap)
    \/ Raise
    \/ NewFigure
    \/ \E num \in 1..MaxNum : FigureNum(num)
    \/ \E num \in 1..MaxNum : CloseFigure(num)
    \/ \E num \in 1..MaxNum : Spoil(num)
    \/ Spin
    \/ Finish
    \/ Harvest

Spec == Init /\ [][Next]_vars

\* ================================================== the metadata catalog
\* Text is a sequence of characters; an identifier is a text over Chars.
MaxIdLen == 2      \* longest identifier, in characters

\* "^" stands for the backquote that BigQuery puts around identifiers
Chars == {"A", "a", "b", ".", "^"}
Ids   == UNION { [1..k -> Chars] : k \in 0..MaxIdLen }

\* str.lower() on one character or one piece of text
Lower(c) ==
    CASE c = "A" -> "a"
      [] c = "Teams" -> "teams"
      [] c = "Attrition" -> "attrition"
      [] c = "INT64" -> "int64"
      [] c = "Float" -> "float"
      [] OTHER -> c

\* value.replace(backquote, "")
StripTicks(s) == SelectSeq(s, LAMBDA c : c # "^")

\* value.split(".")[-1]: what follows the last dot
LastPart(s) ==
    LET dots == { i \in DOMAIN s : s[i] = "." }
        from == IF dots = {} THEN 0
                ELSE CHOOSE i \in dots : \A j \in dots : j <= i
    IN  SubSeq(s, from + 1, Len(s))

\* the identifier compared as written, without folding
normalise_identifier_raw(value) == value

normalise_identifier(value) ==
    LET part == LastPart(StripTicks(value))
    IN  [i \in 1..Len(part) |-> Lower(part[i])]

\* JSON values of a field: absent or null, a string, something else
None    == [t |-> "none", s |-> <<>>]
Str(s)  == [t |-> "str", s |-> s]
Num     == [t |-> "num", s |-> <<>>]
Truthy(v) == (v.t = "str" /\ v.s # <<>>) \/ v.t = "num"
\* Python's `a or b`
Or(a, b) == IF Truthy(a) THEN a ELSE b

\* a document of the metadata directory: what its bytes are, and for a JSON
\* mapping the fields the catalog reads
Doc(k, ds, dsid, descr, tbls) ==
    [kind |-> k, dataset |-> ds, dataset_id |-> dsid, description |-> descr,
     tables |-> tbls]
Mapping(ds, dsid, descr, tbls) == Doc("mapping", ds, dsid, descr, tbls)
Malformed   == Doc("malformed", None, None, "", <<>>)    \* not JSON
Undecodable == Doc("undecodable", None, None, "", <<>>)  \* not text
NotMapping  == Doc("list", None, None, "", <<>>)         \* JSON, no mapping

\* the *.json paths of the directory, numbered in sorted order, and the
\* stem of each; "_metadata" and "-metadata" are single tokens of a stem
Paths == {1, 2}
Stem(p) == IF p = 1 THEN <<"a", "_metadata">> ELSE <<"A", ".", "b">>

\* the paths in descending order
iter_metadata_files_reversed(fs) ==
    LET paths == SortedSeq(DOMAIN fs)
    IN  [i \in DOMAIN paths |-> paths[Len(paths) + 1 - i]]

\* sorted(dir.glob("*.json")); a missing directory has no files
iter_metadata_files(fs) == SortedSeq(DOMAIN fs)

\* path.stem.replace("_metadata", "").replace("-metadata", "")
StemId(stem) ==
    SelectSeq(stem, LAMBDA c : c \notin {"_metadata", "-metadata"})

\* the key under which a parsed mapping is stored
DatasetKey(doc, p) ==
    LET dataset_id == Or(doc.dataset, doc.dataset_id)
    IN  normalise_identifier(IF dataset_id.t = "str" THEN dataset_id.s
                             ELSE StemId(Stem(p)))

\* the body of _load_all_metadata over the paths still to read; only
\* json.JSONDecodeError is caught
RECURSIVE load_from(_, _, _)
load_from(paths, fs, datasets) ==
    IF paths = <<>> THEN [exc |-> "", data |-> datasets]
    ELSE LET path == Head(paths)
             doc  == fs[path]
         IN  CASE doc.kind = "undecodable" ->
                      [exc |-> "UnicodeDecodeError", data |-> <<>>]
               [] doc.kind = "malformed" ->
                      load_from(Tail(paths), fs, datasets)
               [] doc.kind = "list" ->
                      [exc |-> "AttributeError", data |-> <<>>]
               [] OTHER ->
                      load_from(Tail(paths), fs,
                                (DatasetKey(doc, path) :> doc) @@ datasets)

load_all_metadata(fs) == load_from(iter_metadata_files(fs), fs, <<>>)

\* dict.get(key)
Get(data, key) == IF key \in DOMAIN data THEN data[key] ELSE None

\* get_dataset_metadata without normalising the query
get_dataset_metadata_raw(data, dataset_id) == Get(data, dataset_id)

get_dataset_metadata(data, dataset_id) ==
    Get(data, normalise_identifier(dataset_id))

\* ------------------------------------------------ the catalog at run time
\* the importing thread of agent.py and the host's threads
Callers == {"main", "t1", "t2"}

\* the documents a directory may hold
DocSamples ==
    { Mapping(Str(<<"a", ".", "A">>), None, "first", <<>>),
      Mapping(None, Str(<<"^", "b", "^">>), "second", <<>>),
      Mapping(Num, None, "third", <<>>),
      Malformed, Undecodable, NotMapping }

FileSets == UNION { [ps -> DocSamples] : ps \in SUBSET Paths }

\* the identifiers the host asks for
QuerySamples == { <<"A">>, <<"^", "b">> }

EmptyCache == [id |-> 0, data |-> <<>>]
NoRef      == [id |-> 0, key |-> <<>>]
Resting    == [pc |-> "idle", q |-> <<>>, view |-> 0, own |-> EmptyCache,
               held |-> NoRef]

CatInit ==
    /\ SandboxParked /\ FnParked /\ CmpParked /\ OvParked
    /\ files \in FileSets
    /\ cache = EmptyCache
    /\ scans = 0
    /\ cpc = "start"
    /\ thr = [c \in Callers |-> Resting]
    /\ snap = <<>>

\* agent.py has computed _METADATA_PROMPT, its import can complete
ImportReady_noPrompt == TRUE

ImportReady == thr["main"].pc = "done"

\* who may call into the catalog: the importing thread while agent.py is
\* being imported, the host's threads once the tools exist
MayCall(c) == IF c = "main" THEN cpc = "start" ELSE cpc = "up"

\* a catalog operation begins: summarise_metadata_for_prompt() at import,
\* a lookup of q by the host
CallCatalog(c, q) ==
    /\ MayCall(c)
    /\ thr[c].pc = "idle"
    /\ thr' = [thr EXCEPT ![c] = [Resting EXCEPT !.pc = "wrapper", !.q = q]]
    /\ UNCHANGED <<files, cache, scans, cpc, snap>>
    /\ UNCHANGED <<sandbox, fnvars, cmpvars, ov>>

\* the lru_cache wrapper: a hit returns the cached dict, a miss goes on to
\* call the function
CacheCheck(c) ==
    /\ thr[c].pc = "wrapper"
    /\ thr' = [thr EXCEPT ![c] =
                 IF cache.id # 0
                 THEN [@ EXCEPT !.pc = "answer", !.view = cache.id]
                 ELSE [@ EXCEPT !.pc = "load"]]
    /\ UNCHANGED <<files, cache, scans, cpc, snap>>
    /\ UNCHANGED <<sandbox, fnvars, cmpvars, ov>>

\* the body of _load_all_metadata
LoadAll(c) ==
    /\ thr[c].pc = "load"
    /\ scans' = scans + 1
    /\ LET r == load_all_metadata(files)
       IN  thr' = [thr EXCEPT ![c] =
                 IF r.exc # ""
                 THEN [@ EXCEPT !.pc = "raised"]
                 ELSE [@ EXCEPT !.pc = "store",
                                !.own = [id |-> scans + 1, data |-> r.data,
                                         files |-> files]]]
    /\ UNCHANGED <<files, cache, cpc, snap>>
    /\ UNCHANGED <<sandbox, fnvars, cmpvars, ov>>

\* the wrapper after the function returned: the result is cached unless
\* another caller cached one meanwhile, and it is returned in either case
Store(c) ==
    /\ thr[c].pc = "store"
    /\ IF cache.id = 0
       THEN /\ cache' = [id |-> thr[c].own.id, data |-> thr[c].own.data]
            /\ snap' = [data |-> thr[c].own.data, files |-> thr[c].own.files]
       ELSE UNCHANGED <<cache, snap>>
    /\ thr' = [thr EXCEPT ![c] = [@ EXCEPT !.pc = "answer",
                                           !.view = thr[c].own.id]]
    /\ UNCHANGED <<files, scans, cpc>>
    /\ UNCHANGED <<sandbox, fnvars, cmpvars, ov>>

\* the dict a caller was given by the wrapper
Viewed(c) == IF thr[c].view = cache.id THEN cache.data ELSE thr[c].own.data

\* the operation answers from the dict it was given; get_dataset_metadata
\* hands out the cached payload itself
Answer(c) ==
    /\ thr[c].pc = "answer"
    /\ LET key   == normalise_identifier(thr[c].q)
           found == get_dataset_metadata(Viewed(c), thr[c].q) # None
       IN  thr' = [thr EXCEPT ![c] =
                 IF c = "main" THEN [@ EXCEPT !.pc = "done"]
                 ELSE [@ EXCEPT !.pc = "idle",
                                !.held = IF found
                                         THEN [id |-> thr[c].view, key |-> key]
                                         ELSE NoRef]]
    /\ UNCHANGED <<files, cache, scans, cpc, snap>>
    /\ UNCHANGED <<sandbox, fnvars, cmpvars, ov>>

\* the import of agent.py completes and the host starts using the tools
ImportFinish ==
    /\ cpc = "start"
    /\ ImportReady
    /\ cpc' = "up"
    /\ UNCHANGED <<files, cache, scans, thr, snap>>
    /\ UNCHANGED <<sandbox, fnvars, cmpvars, ov>>

\* the load raised inside the import: the process does not come up
ImportFail ==
    /\ cpc = "start"
    /\ thr["main"].pc = "raised"
    /\ cpc' = "crashed"
    /\ UNCHANGED <<files, cache, scans, thr, snap>>
    /\ UNCHANGED <<sandbox, fnvars, cmpvars, ov>>

\* a caller changes the payload that get_dataset_metadata returned to it
MutateReturned(c) ==
    /\ cpc = "up"
    /\ thr[c].pc = "idle"
    /\ thr[c].held.id # 0
    /\ thr[c].held.id = cache.id
    /\ cache.data[thr[c].held.key].description # "changed"
    /\ cache' = [cache EXCEPT !.data[thr[c].held.key].description = "changed"]
    /\ UNCHANGED <<files, scans, cpc, thr, snap>>
    /\ UNCHANGED <<sandbox, fnvars, cmpvars, ov>>

\* the directory without the document at path p
Without(fs, p) == [x \in DOMAIN fs \ {p} |-> fs[x]]

\* a document of the directory is written, replaced or deleted
SourceChange ==
    /\ cpc # "crashed"
    /\ \/ \E p \in Paths, d \in DocSamples :
             /\ files' = (p :> d) @@ Without(files, p)
             /\ files' # files
       \/ \E p \in DOMAIN files : files' = Without(files, p)
    /\ UNCHANGED <<cache, scans, cpc, thr, snap>>
    /\ UNCHANGED <<sandbox, fnvars, cmpvars, ov>>

CatNext ==
    \/ \E c \in Callers, q \in QuerySamples : CallCatalog(c, q)
    \/ \E c \in Callers : CacheCheck(c)
    \/ \E c \in Callers : LoadAll(c)
    \/ \E c \in Callers : Store(c)
    \/ \E c \in Callers : Answer(c)
    \/ ImportFinish
    \/ ImportFail
    \/ \E c \in Callers : MutateReturned(c)
    \/ SourceChange

SpecCatalog == CatInit /\ [][CatNext]_vars

\* ============================================ lookups of tables and routing
\* the tables of a dataset, as a JSON mapping name -> info or as a JSON list
\* of records; an item that is not a JSON mapping has rec = FALSE
Item(key, table, table_id, name, info, rec) ==
    [key |-> key, table |-> table, table_id |-> table_id, name |-> name,
     info |-> info, rec |-> rec]
Tables(form, items) == [form |-> form, items |-> items]

RECURSIVE iter_table_entries_raw(_)
\* _iter_table_entries comparing the names as written
iter_table_entries_raw(tables) ==
    IF tables.items = <<>> THEN <<>>
    ELSE LET entry == Head(tables.items)
             rest  == iter_table_entries_raw(Tables(tables.form,
                                                    Tail(tables.items)))
             name  == Or(entry.table, Or(entry.table_id, entry.name))
         IN  CASE ~entry.rec -> rest
               [] tables.form = "dict" -> <<<<entry.key, entry.info>>>> \o rest
               [] tables.form = "list" /\ name.t = "str" ->
                      <<<<name.s, entry.info>>>> \o rest
               [] OTHER -> rest

RECURSIVE iter_table_entries(_)
\* the pairs (normalised name, info) in source order
iter_table_entries(tables) ==
    IF tables.items = <<>> THEN <<>>
    ELSE LET entry == Head(tables.items)
             rest  == iter_table_entries(Tables(tables.form,
                                                Tail(tables.items)))
             name  == Or(entry.table, Or(entry.table_id, entry.name))
         IN  CASE ~entry.rec -> rest
               [] tables.form = "dict" ->
                      <<<<normalise_identifier(entry.key), entry.info>>>>
                          \o rest
               [] tables.form = "list" /\ name.t = "str" ->
                      <<<<normalise_identifier(name.s), entry.info>>>> \o rest
               [] OTHER -> rest

\* the first pair whose name is the target; a dataset that does not resolve
\* has no tables
get_table_metadata(data, dataset_id, table_id) ==
    LET dataset_meta == get_dataset_metadata(data, dataset_id)
        target  == normalise_identifier(table_id)
        entries == IF dataset_meta = None THEN <<>>
                   ELSE iter_table_entries(dataset_meta.tables)
        hits    == { i \in DOMAIN entries : entries[i][1] = target }
    IN  IF hits = {} THEN None
        ELSE entries[CHOOSE i \in hits : \A j \in hits : i <= j][2]

\* the two vocabularies, each in sorted order; a keyword is the sequence of
\* the pieces of text it is written with
M365_KEYWORDS ==
    << <<"azure", " ", "ad">>, <<"entra">>, <<"exchange">>, <<"graph">>,
       <<"intune">>, <<"licen", "c", "e">>, <<"licen", "s", "e">>, <<"m365">>,
       <<"mailbox">>, <<"microsoft", " ", "365">>, <<"office", " ", "365">>,
       <<"onedrive">>, <<"outlook">>, <<"power", " ", "platform">>,
       <<"sharepoint">>, <<"teams">> >>
WORKFORCE_KEYWORDS ==
    << <<"attrition">>, <<"employ", "ee">>, <<"employ", "ment">>,
       <<"headcount">>, <<"hiring">>, <<"hr">>,
       <<"human", " ", "resources">>, <<"organi", "s", "ation">>,
       <<"organi", "z", "ation">>, <<"people", " ", "analytics">>,
       <<"recruitment">>, <<"talent">>, <<"turnover">>, <<"vacanc", "ies">>,
       <<"vacanc", "y">>, <<"workforce">> >>

\* `word in text`
Occurs(word, text) ==
    \E i \in 0..(Len(text) - Len(word)) :
        SubSeq(text, i + 1, i + Len(word)) = word

\* sorted({word for word in keywords if word in text})
Matches(keywords, text) == SelectSeq(keywords, LAMBDA w : Occurs(w, text))

\* the policy applied to the text of the question
Decide(text) ==
    LET m365_matches == Matches(M365_KEYWORDS, text)
        wf_matches   == Matches(WORKFORCE_KEYWORDS, text)
        Decision(dataset, reason, keywords) ==
            [dataset |-> dataset,
             reason |-> [text |-> reason, keywords |-> keywords]]
    IN  CASE m365_matches # <<>> /\ wf_matches = <<>> ->
                 Decision("ms_graph", "Matched Microsoft 365 keywords",
                          m365_matches)
          [] wf_matches # <<>> /\ m365_matches = <<>> ->
                 Decision("gt_wf", "Matched workforce keywords", wf_matches)
          [] m365_matches # <<>> /\ wf_matches # <<>> ->
                 Decision("ms_graph",
                          "Matched both keyword groups; prioritising Microsoft 365 context by default",
                          <<>>)
          [] OTHER ->
                 Decision("None",
                          "No routing keywords detected; fall back to general reasoning",
                          <<>>)

\* routing on the question as written, without folding its case
route_question_to_dataset_unfolded(question) == Decide(question)

route_question_to_dataset(question) ==
    Decide([i \in 1..Len(question) |-> Lower(question[i])])

\* ============================================ the planner and the summary
\* the dtypes that make a column numeric, each a text of one piece
NUMERIC_TYPES ==
    { <<"int64">>, <<"int32">>, <<"integer">>, <<"float64">>, <<"float32">>,
      <<"float">>, <<"numeric">>, <<"bignumeric">>, <<"decimal">>,
      <<"number">> }

\* A column of a table. In the mapping form key is its name and kind tells
\* whether its value is a mapping ("dict") or something else; in the list
\* form a "dict" entry carries name / column, a "str" entry is the name
\* itself (key), and "other" is any other JSON value.
Col(kind, key, name, column, type, data_type) ==
    [kind |-> kind, key |-> key, name |-> name, column |-> column,
     type |-> type, data_type |-> data_type]

\* numeric_columns and categorical_columns of info.get("columns"), which is
\* a mapping, a list or neither (form "none")
classify_columns(column_info) ==
    LET dict  == column_info.form = "dict"
        Name(c) == IF dict \/ c.kind = "str" THEN Str(c.key)
                   ELSE Or(c.name, c.column)
        Kept(c) == IF dict THEN c.kind = "dict"
                   ELSE c.kind = "str" \/ (c.kind = "dict" /\ Truthy(Name(c)))
        \* str(type or data_type or "").lower()
        dtype(c) == LET v == Or(Or(c.type, c.data_type), Str(<<>>))
                    IN  IF v.t = "str"
                        THEN [i \in DOMAIN v.s |-> Lower(v.s[i])]
                        ELSE <<"5">>
        Numeric(c) == c.kind = "dict" /\ dtype(c) \in NUMERIC_TYPES
        Names(cs)  == [i \in DOMAIN cs |-> Name(cs[i]).s]
    IN  [numeric_columns |->
             Names(SelectSeq(column_info.items,
                             LAMBDA c : Kept(c) /\ Numeric(c))),
         categorical_columns |->
             Names(SelectSeq(column_info.items,
                             LAMBDA c : Kept(c) /\ ~Numeric(c)))]

\* the planner reading the objective whatever the question
asked_text_objective(objective, question) == objective

\* question or objective
asked_text(objective, question) == Or(question, Str(objective)).s

\* the loop over the tables without its filter and its limit
select_tables_all(table_entries, requested) == table_entries

\* the tables the loop of create_dashboard_plan keeps: those requested, or
\* for want of a request the first four
select_tables(table_entries, requested) ==
    IF requested # <<>>
    THEN SelectSeq(table_entries,
                   LAMBDA e : \E i \in DOMAIN requested : requested[i] = e[1])
    ELSE SubSeq(table_entries, 1,
                IF Len(table_entries) < 4 THEN Len(table_entries) ELSE 4)

\* every suggestion a bar chart
chart_type_bar(dimension) == "bar"

\* "bar" if dimension else "indicator"
chart_type_for(dimension) == IF Truthy(dimension) THEN "bar" ELSE "indicator"

\* focus_tables is [given, names]; `focus_tables or []` is names, which is
\* empty when no list is given
create_dashboard_plan(data, objective, question, focus_tables) ==
    LET routed == route_question_to_dataset(asked_text(objective, question))
        dataset_meta == IF routed.dataset = "None" THEN None
                        ELSE get_dataset_metadata(data, <<routed.dataset>>)
        table_entries == IF dataset_meta = None THEN <<>>
                         ELSE iter_table_entries(dataset_meta.tables)
        requested == [i \in DOMAIN focus_tables.names |->
                         normalise_identifier(focus_tables.names[i])]
        kept   == select_tables(table_entries, requested)
        tables == [i \in DOMAIN kept |->
                     LET cols == classify_columns(kept[i][2].columns)
                     IN  [table |-> kept[i][1],
                          numeric_columns |-> cols.numeric_columns,
                          categorical_columns |-> cols.categorical_columns]]
        charted == SelectSeq(tables, LAMBDA t : t.numeric_columns # <<>>)
        visualisations ==
            [i \in DOMAIN charted |->
                LET table == charted[i]
                    dimension == IF table.categorical_columns # <<>>
                                 THEN Str(table.categorical_columns[1])
                                 ELSE None
                IN  [table |-> table.table,
                     chart_type |-> chart_type_for(dimension),
                     metric |-> table.numeric_columns[1],
                     dimension |-> dimension]]
    IN  [recommended_dataset |-> routed.dataset,
         routing_reason |-> routed.reason,
         recommended_tables |-> tables,
         visualisations |-> visualisations]

\* the names of up to five columns, as the summary of the data analyst app
\* and as that of the winsights agent collects them; exc is the exception
\* that joining them raises
notable_columns(column_info, variant) ==
    LET items == column_info.items
        First5(s) == SubSeq(s, 1, IF Len(s) < 5 THEN Len(s) ELSE 5)
        Name(c) == IF c.kind = "str" THEN Str(c.key) ELSE Or(c.name, c.column)
        named == SelectSeq(items, LAMBDA c :
                     c.kind = "str" \/ (c.kind = "dict" /\ Truthy(Name(c))))
        \* c.get("name") if isinstance(c, dict) else c
        got == [i \in DOMAIN First5(items) |->
                   CASE items[i].kind = "dict" -> items[i].name
                     [] items[i].kind = "str" -> Str(items[i].key)
                     [] OTHER -> Num]
    IN  CASE column_info.form = "dict" ->
                 [exc |-> "",
                  names |-> First5([i \in DOMAIN items |-> items[i].key])]
          [] column_info.form = "list" /\ variant = "data_analyst" ->
                 [exc |-> "",
                  names |-> First5([i \in DOMAIN named |-> Name(named[i]).s])]
          [] column_info.form = "list" /\ variant = "winsights" ->
                 IF \E i \in DOMAIN got : got[i].t # "str"
                 THEN [exc |-> "TypeError", names |-> <<>>]
                 ELSE [exc |-> "", names |-> [i \in DOMAIN got |-> got[i].s]]
          [] OTHER -> [exc |-> "", names |-> <<>>]

\* the lines of the summary: one for each dataset in sorted order of the
\* keys (texts over "a" < "b" ...), followed by one for each of its tables
summarise_metadata_for_prompt(metadata, variant) ==
    LET Rank(c) == CASE c = "a" -> 1 [] c = "b" -> 2 [] OTHER -> 3
        Less(s, t) ==
            \E i \in 1..(Len(s) + 1) :
                /\ i <= Len(t)
                /\ \A j \in 1..(i - 1) : s[j] = t[j]
                /\ i = Len(s) + 1 \/ Rank(s[i]) < Rank(t[i])
        keys == DOMAIN metadata
        sorted == [n \in 1..Cardinality(keys) |->
                     CHOOSE k \in keys :
                         Cardinality({j \in keys : Less(j, k)}) = n - 1]
        Line(kind, id, names) == [kind |-> kind, id |-> id, cols |-> names]
        TableLines(entries) ==
            [i \in DOMAIN entries |->
                Line("table", entries[i][1],
                     notable_columns(entries[i][2].columns, variant).names)]
        Raises(k) ==
            \E e \in { iter_table_entries(metadata[k].tables)[i] :
                         i \in DOMAIN iter_table_entries(metadata[k].tables) } :
                notable_columns(e[2].columns, variant).exc # ""
        RECURSIVE Lines(_)
        Lines(ks) ==
            IF ks = <<>> THEN <<>>
            ELSE <<Line("dataset", Head(ks), <<>>)>>
                 \o TableLines(iter_table_entries(metadata[Head(ks)].tables))
                 \o Lines(Tail(ks))
    IN  CASE keys = {} ->
                 [exc |-> "", lines |-> <<Line("none", <<>>, <<>>)>>]
          [] \E k \in keys : Raises(k) ->
                 [exc |-> "TypeError", lines |-> <<>>]
          [] OTHER -> [exc |-> "", lines |-> Lines(sorted)]

\* ---------------------------------- one call of the planner or the summary
MaxTables == 5     \* most tables of a dataset

\* the `columns` of tables, in both forms
TableKinds ==
    LET D(key, type, data_type) == Col("dict", key, None, None, type, data_type)
        L(name, column, type, data_type) ==
            Col("dict", <<>>, name, column, type, data_type)
        S(key) == Col("str", key, None, None, None, None)
        T(x) == Str(<<x>>)
    IN  << Tables("list", << L(T("score"), None, T("INT64"), None),
                             S(<<"region">>),
                             L(T("count"), None, None, T("Float")) >>),
           Tables("dict", << D(<<"id">>, T("integer"), None),
                             D(<<"amount">>, Str(<<>>), T("Float")) >>),
           Tables("dict", << D(<<"note">>, T("string"), None),
                             Col("str", <<"tag">>, None, None, None, None) >>),
           Tables("list", << L(None, T("x"), T("numeric"), None),
                             L(None, None, T("int64"), None),
                             S(<<"s1">>), S(<<"s2">>), S(<<"s3">>),
                             S(<<"s4">>), S(<<"s5">>) >>),
           Tables("dict", << D(<<"c1">>, T("string"), None),
                             D(<<"c2">>, T("decimal"), None),
                             D(<<"c3">>, Num, None),
                             D(<<"c4">>, None, None),
                             D(<<"c5">>, T("date"), None),
                             D(<<"c6">>, T("number"), None) >>) >>

\* n tables named A, AA, AAA, ... whose columns are taken from TableKinds in
\* turn, beginning after the kind `start`
SampleTables(n, start) ==
    Tables("dict",
           [i \in 1..n |->
               Item([j \in 1..i |-> "A"], None, None, None,
                    [t |-> "info", s |-> <<"t">>,
                     columns |-> TableKinds[((start + i) % 5) + 1]], TRUE)])

\* ------------------------------------- one call of a lookup or of routing
MaxWords == 3      \* longest question, in pieces of text

\* pieces a question is written with: "three" is <<"t", "hr", "ee">>
Questions ==
    LET pieces == {"Teams", "outlook", "Attrition", "headcount", "t", "hr",
                   "ee", "weather", " "}
    IN  UNION { [1..k -> pieces] : k \in 0..MaxWords }

\* the tables of a dataset in source order: names as written, distinct as
\* the keys of a JSON mapping are
TableLists ==
    LET names == { <<>>, <<"a">>, <<"A">>, <<".", "b">> }
        items == [name : names, rec : BOOLEAN]
    IN  { ts \in UNION { [1..k -> items] : k \in 0..2 } :
            \A i, j \in DOMAIN ts : ts[i].name = ts[j].name => i = j }

\* the same tables written as a JSON mapping and as a JSON list of records
\* that carry the name in the given field
AsDict(ts) ==
    Tables("dict", [i \in DOMAIN ts |->
        Item(ts[i].name, None, None, None,
             [t |-> "info", s |-> <<<<"t1", "t2">>[i]>>], ts[i].rec)])
AsList(ts, field) ==
    Tables("list", [i \in DOMAIN ts |->
        Item(<<>>,
             IF field = "table" THEN Str(ts[i].name) ELSE None,
             IF field = "table_id" THEN Str(ts[i].name) ELSE None,
             IF field = "name" THEN Str(ts[i].name) ELSE None,
             [t |-> "info", s |-> <<<<"t1", "t2">>[i]>>], ts[i].rec)])

\* a directory with the dataset d at the first path and, if asked for, a
\* second dataset "b" named by its dataset_id
DirectoryOf(d, tables, other) ==
    LET first  == 1 :> Mapping(Str(d), None, "first", tables)
        second == 2 :> Mapping(None, Str(<<"b">>), "second",
                               Tables("dict", <<>>))
    IN  IF other THEN first @@ second ELSE first

FnInputs ==
    { [op |-> "dataset", d |-> d, other |-> o, q |-> q] :
          d \in Ids, o \in BOOLEAN, q \in Ids }
    \cup { [op |-> "table", tbls |-> ts, field |-> f, dq |-> dq, t |-> t] :
          ts \in TableLists, f \in {"table", "table_id", "name"},
          dq \in {<<"^", "A">>, <<"b">>}, t \in Ids }
    \cup { [op |-> "route", q |-> q] : q \in Questions }
    \cup { [op |-> "plan", n |-> n, start |-> st, objective |-> o,
             question |-> q, focus_tables |-> f] :
          n \in 0..MaxTables, st \in 0..4,
          o \in {<<"Teams">>, <<"weather">>, <<"Attrition">>},
          q \in {None, Str(<<>>), Str(<<"Teams">>), Str(<<"weather">>)},
          f \in {[given |-> FALSE, names |-> <<>>],
                 [given |-> TRUE, names |-> <<>>],
                 [given |-> TRUE, names |-> << <<"^", "a", "^">> >>],
                 [given |-> TRUE,
                  names |-> << <<"x", ".", "A", "A">>, <<"b">> >>]} }
    \cup { [op |-> "summary", d |-> d, other |-> o, n |-> n, start |-> st] :
          d \in Ids, o \in BOOLEAN, n \in 0..MaxTables, st \in 0..4 }

FnInit ==
    /\ SandboxParked /\ CatParked /\ CmpParked /\ OvParked
    /\ fin \in FnInputs
    /\ fout = <<>>

CallGetDataset ==
    /\ fin.op = "dataset" /\ fout = <<>>
    /\ LET fs   == DirectoryOf(fin.d, Tables("dict", <<>>), fin.other)
           data == load_all_metadata(fs).data
       IN  fout' = [files |-> fs, data |-> data,
                    r |-> get_dataset_metadata(data, fin.q)]
    /\ UNCHANGED <<fin, sandbox, catvars, cmpvars, ov>>

CallGetTable ==
    /\ fin.op = "table" /\ fout = <<>>
    /\ LET Loaded(tables) ==
               load_all_metadata(DirectoryOf(<<"a">>, tables, FALSE)).data
       IN  fout' =
             [asDict |-> get_table_metadata(Loaded(AsDict(fin.tbls)),
                                            fin.dq, fin.t),
              asList |-> get_table_metadata(
                             Loaded(AsList(fin.tbls, fin.field)),
                             fin.dq, fin.t)]
    /\ UNCHANGED <<fin, sandbox, catvars, cmpvars, ov>>

CallRoute ==
    /\ fin.op = "route" /\ fout = <<>>
    /\ fout' = route_question_to_dataset(fin.q)
    /\ UNCHANGED <<fin, sandbox, catvars, cmpvars, ov>>

CallPlan ==
    /\ fin.op = "plan" /\ fout = <<>>
    /\ LET fs   == DirectoryOf(<<"ms_graph">>, SampleTables(fin.n, fin.start),
                               TRUE)
           data == load_all_metadata(fs).data
       IN  fout' = [data |-> data,
                    plan |-> create_dashboard_plan(data, fin.objective,
                                                   fin.question,
                                                   fin.focus_tables)]
    /\ UNCHANGED <<fin, sandbox, catvars, cmpvars, ov>>

CallSummarise ==
    /\ fin.op = "summary" /\ fout = <<>>
    /\ LET fs   == DirectoryOf(fin.d, SampleTables(fin.n, fin.start),
                               fin.other)
           data == load_all_metadata(fs).data
       IN  fout' = [files |-> fs, data |-> data,
                    data_analyst |->
                        summarise_metadata_for_prompt(data, "data_analyst"),
                    winsights |->
                        summarise_metadata_for_prompt(data, "winsights")]
    /\ UNCHANGED <<fin, sandbox, catvars, cmpvars, ov>>

FnNext ==
    CallGetDataset \/ CallGetTable \/ CallRoute \/ CallPlan \/ CallSummarise

SpecLookup == FnInit /\ [][FnNext]_vars

\* ======================================================= compose_dashboard
MaxCharts == 4     \* longest list of chart specifications
MaxGrid   == 2     \* largest rows and cols argument

\* A chart specification: a field the mapping lacks is "absent"; row and
\* col are 1-based, 0 stands for a row or col that is not given (the code
\* reads both with `or`, to which None and 0 are alike). A chart has no
\* title ("") and no params unless it is given them; params is the set of
\* the keys of that mapping.
Chart(type, data, row, col) ==
    [type |-> type, data |-> data, row |-> row, col |-> col,
     title |-> "", params |-> {}]

ChartSamples ==
    { [Chart("bar", "frame", 0, 0) EXCEPT !.title = "A", !.params = {"x"}],
      [Chart("line", "records", 1, 2) EXCEPT !.title = "B"],
      Chart("absent", "frame", 2, 0),
      Chart("bar", "absent", 0, 0),
      Chart("foo", "frame", 0, 0),
      Chart("__name__", "frame", 0, 0) }

\* getattr(px, chart_type, None): a chart function of plotly.express, an
\* attribute of the module that is no function (its __name__ is a string),
\* or None
px_getattr(chart_type) ==
    CASE chart_type \in {"bar", "line", "scatter", "area", "pie",
                         "histogram"} -> "function"
      [] chart_type \in {"__name__", "colors", "data"} -> "attribute"
      [] OTHER -> "None"

\* `not charts`
no_charts_never(charts) == FALSE

no_charts(charts) == charts = <<>>

\* chart.get("type", "bar")
chart_type_of(chart) == IF chart.type = "absent" THEN "bar" ELSE chart.type

\* chart.get("data") is None
data_missing_never(chart) == FALSE

data_missing(chart) == chart.data = "absent"

\* placement down the columns first
placement_colMajor(chart, index, resolved_cols) ==
    << IF chart.row # 0 THEN chart.row ELSE (index % resolved_cols) + 1,
       IF chart.col # 0 THEN chart.col ELSE (index \div resolved_cols) + 1 >>

\* row = chart.get("row") or index // resolved_cols + 1, and col likewise
placement(chart, index, resolved_cols) ==
    << IF chart.row # 0 THEN chart.row ELSE (index \div resolved_cols) + 1,
       IF chart.col # 0 THEN chart.col ELSE (index % resolved_cols) + 1 >>

\* the mapping the loop passes to the plot function: a dict of its own
\* (own = TRUE) or the caller's params mapping itself
working_params_shared(chart) == [keys |-> chart.params, own |-> FALSE]

\* dict(chart.get("params", {}))
working_params(chart) == [keys |-> chart.params, own |-> TRUE]

\* make_subplots(subplot_titles=...): the titles go to the cells of the
\* grid in reading order, the k-th title to the k-th cell
TitleAt(subplot_titles, grid, row, col) ==
    LET k == (row - 1) * grid[2] + col
    IN  IF k \in DOMAIN subplot_titles THEN subplot_titles[k] ELSE ""

NoGrid == <<0, 0>>
Exc(type, about) == [type |-> type, about |-> about]

ComposeCalls ==
    [charts : UNION { [1..k -> ChartSamples] : k \in 0..MaxCharts },
     title : BOOLEAN, rows : 0..MaxGrid, cols : 0..MaxGrid,
     shared_x : BOOLEAN, shared_y : BOOLEAN]

CmpInit ==
    /\ SandboxParked /\ CatParked /\ FnParked /\ OvParked
    /\ cin \in ComposeCalls
    /\ cst = [pc |-> "called", index |-> 0, grid |-> NoGrid, funcs |-> <<>>,
              placed |-> <<>>, titled |-> FALSE, exc |-> Exc("", ""),
              subplot_titles |-> <<>>, given |-> cin.charts]

\* the guard on the list of charts
ComposeEnter ==
    /\ cst.pc = "called"
    /\ cst' = IF no_charts(cin.charts)
              THEN [cst EXCEPT !.pc = "raised",
                               !.exc = Exc("ValueError", "charts")]
              ELSE [cst EXCEPT !.pc = "grid"]
    /\ UNCHANGED <<cin, sandbox, catvars, fnvars, ov>>

\* make_subplots, which refuses a grid without rows or columns
MakeSubplots ==
    /\ cst.pc = "grid"
    /\ LET resolved_rows == IF cin.rows # 0 THEN cin.rows ELSE Len(cin.charts)
           resolved_cols == IF cin.cols # 0 THEN cin.cols ELSE 1
           subplot_titles ==
               [n \in DOMAIN cin.charts |-> cin.charts[n].title]
           any_title == \E n \in DOMAIN cin.charts : cin.charts[n].title # ""
       IN  cst' = IF resolved_rows < 1 \/ resolved_cols < 1
                  THEN [cst EXCEPT !.pc = "raised",
                                   !.exc = Exc("ValueError", "make_subplots")]
                  ELSE [cst EXCEPT !.pc = "loop",
                                   !.grid = <<resolved_rows, resolved_cols>>,
                                   !.subplot_titles =
                                       IF any_title THEN subplot_titles
                                       ELSE <<>>]
    /\ UNCHANGED <<cin, sandbox, catvars, fnvars, ov>>

\* one round of the loop over the charts
RenderChart ==
    /\ cst.pc = "loop"
    /\ cst.index < Len(cin.charts)
    /\ LET index      == cst.index
           chart      == cin.charts[index + 1]
           chart_type == chart_type_of(chart)
           plot_func  == px_getattr(chart_type)
           at         == placement(chart, index, cst.grid[2])
           params     == working_params(chart)
           reached    == px_getattr(chart_type) # "None"
                             /\ ~data_missing(chart)
           chosen     == [cst EXCEPT !.funcs = Append(@, plot_func)]
           Fail(st, type, about) ==
               [st EXCEPT !.pc = "raised", !.exc = Exc(type, about)]
       IN  /\ cst' =
             CASE plot_func = "None" -> Fail(cst, "ValueError", chart_type)
               [] data_missing(chart) -> Fail(chosen, "ValueError", "data")
               [] plot_func = "attribute" ->
                      Fail(chosen, "TypeError", "not callable")
               [] at[1] > cst.grid[1] \/ at[2] > cst.grid[2] ->
                      Fail(chosen, "Exception", "add_trace")
               [] OTHER ->
                      [chosen EXCEPT
                          !.index = index + 1,
                          !.placed = Append(@, [type |-> chart_type,
                                                row |-> at[1],
                                                col |-> at[2]])]
           \* params.setdefault("data_frame", frame)
           /\ cin' = IF reached /\ ~params.own
                     THEN [cin EXCEPT !.charts[index + 1].params =
                                          @ \cup {"data_frame"}]
                     ELSE cin
    /\ UNCHANGED <<sandbox, catvars, fnvars, ov>>

\* after the loop: the title, and the figure is returned
ComposeReturn ==
    /\ cst.pc = "loop"
    /\ cst.index = Len(cin.charts)
    /\ cst' = [cst EXCEPT !.pc = "returned", !.titled = cin.title]
    /\ UNCHANGED <<cin, sandbox, catvars, fnvars, ov>>

CmpNext == ComposeEnter \/ MakeSubplots \/ RenderChart \/ ComposeReturn

SpecCompose == CmpInit /\ [][CmpNext]_vars

\* --------------------------------- two overlapping calls of the sandbox
\* run_python_analysis called on two threads of the host. sys.stdout and
\* pyplot's figure registry belong to the process, not to a call.
Threads == {1, 2}
MaxStmts == 2      \* longest snippet, in statements

\* the snippets: sequences of print(...) and plt.figure() statements
Snippets ==
    UNION { [1..n -> {"print", "plot"}] : n \in 0..MaxStmts }

\* what a call printed or drew is marked with the number of its thread;
\* sys.stdout is the number of the call whose buffer it is, 0 the console
Call(code) ==
    [pc |-> "call", code |-> code, rest |-> code, stdout_buffer |-> <<>>,
     old_targets |-> <<>>, figures |-> <<>>, payload |-> <<>>]

OvInit ==
    /\ SandboxParked /\ CatParked /\ FnParked /\ CmpParked
    /\ \E c1, c2 \in Snippets :
          ov = [stdout |-> 0, console |-> <<>>, fignums |-> <<>>,
                overlap |-> FALSE,
                call |-> (1 :> Call(c1)) @@ (2 :> Call(c2))]

InCall(st, t) == st.call[t].pc \notin {"call", "done"}

\* stdout_buffer = io.StringIO() and __enter__ of redirect_stdout: the old
\* sys.stdout is kept and sys.stdout becomes the call's buffer
OvEnter(t) ==
    /\ ov.call[t].pc = "call"
    /\ ov' = [ov EXCEPT !.stdout = t,
                        !.overlap = @ \/ \E u \in Threads \ {t} : InCall(ov, u),
                        !.call[t].old_targets = <<ov.stdout>>,
                        !.call[t].pc = "exec"]
    /\ UNCHANGED <<sandbox, catvars, fnvars, cmpvars>>

\* one statement of the snippet inside exec(): print writes to whatever
\* sys.stdout is now, plt.figure() adds a figure to the registry
OvStatement(t) ==
    /\ ov.call[t].pc = "exec" /\ ov.call[t].rest # <<>>
    /\ LET stmt == Head(ov.call[t].rest)
           done == [ov EXCEPT !.call[t].rest = Tail(@)]
       IN  ov' = CASE stmt = "plot" ->
                          [done EXCEPT !.fignums = Append(@, t)]
                   [] stmt = "print" /\ ov.stdout = 0 ->
                          [done EXCEPT !.console = Append(@, t)]
                   [] OTHER ->
                          [done EXCEPT
                             !.call[ov.stdout].stdout_buffer = Append(@, t)]
    /\ UNCHANGED <<sandbox, catvars, fnvars, cmpvars>>

\* __exit__ of redirect_stdout: sys.stdout becomes the target kept on entry
OvExit(t) ==
    /\ ov.call[t].pc = "exec" /\ ov.call[t].rest = <<>>
    /\ ov' = [ov EXCEPT !.stdout = ov.call[t].old_targets[1],
                        !.call[t].old_targets = <<>>,
                        !.call[t].pc = "harvest"]
    /\ UNCHANGED <<sandbox, catvars, fnvars, cmpvars>>

\* the loop over plt.get_fignums(): every open figure is saved
OvHarvest(t) ==
    /\ ov.call[t].pc = "harvest"
    /\ ov' = [ov EXCEPT !.call[t].figures = ov.fignums,
                        !.call[t].pc = "close"]
    /\ UNCHANGED <<sandbox, catvars, fnvars, cmpvars>>

\* plt.close("all")
OvClose(t) ==
    /\ ov.call[t].pc = "close"
    /\ ov' = [ov EXCEPT !.fignums = <<>>, !.call[t].pc = "return"]
    /\ UNCHANGED <<sandbox, catvars, fnvars, cmpvars>>

\* payload = {"stdout": stdout_buffer.getvalue(), "figures": figures}
OvReturn(t) ==
    /\ ov.call[t].pc = "return"
    /\ ov' = [ov EXCEPT !.call[t].payload =
                            [stdout |-> ov.call[t].stdout_buffer,
                             figures |-> ov.call[t].figures],
                        !.call[t].pc = "done"]
    /\ UNCHANGED <<sandbox, catvars, fnvars, cmpvars>>

OvNext ==
    \E t \in Threads :
        \/ OvEnter(t) \/ OvStatement(t) \/ OvExit(t)
        \/ OvHarvest(t) \/ OvClose(t) \/ OvReturn(t)

SpecOverlap == OvInit /\ [][OvNext]_vars

\* fairness of the interpreter and of the host: a step that can be taken
\* is eventually taken
LiveSpec == Spec /\ WF_vars(Next)

\* ------------------------------------------------------------ properties
AtReturn   == pc = "idle" /\ ret.kind = "envelope"
Completed  == AtReturn /\ "error" \notin DOMAIN ret.env
FigureNumOf(entry) == entry[2][2]

\* C1: no exception escapes a call; whatever fails during it - compiling,
\* running, rendering the figures, serialising `result` - the call returns
\* an envelope whose `error` is a non-empty text.
C1_NeverRaises ==
    /\ ret.kind # "raised"
    /\ (pc = "idle" /\ hist.failed) =>
          /\ ret.kind = "envelope"
          /\ "error" \in DOMAIN ret.env
          /\ ret.env["error"] # <<>>

\* C2: when a call returns, after a completed snippet and after a faulted
\* one, no figure is open; so every figure in a call's `figures` was
\* created by that call's snippet.
C2_RegistryEmptyAtReturn ==
    AtReturn =>
        /\ figs = <<>>
        /\ \A i \in DOMAIN Figures(ret.env) :
              FigureNumOf(Figures(ret.env)[i]) \in Range(hist.own)

\* C3: no snippet reaches an operation on the file system or the network
\* through the names bound in its namespace.
C3_NoFileOrNetwork == hist.caps \cap {"fs", "net"} = {}

\* C4: the built-ins a snippet sees are the whitelist, without __import__,
\* open, eval, exec and getattr; no snippet obtains a module or capability
\* that was not bound for it; an import statement ends in an error envelope.
C4_NoImportMechanism ==
    /\ [](pc \in {"exec", "harvest"} =>
             /\ safe_globals["__builtins__"] = allowed_builtins
             /\ safe_globals["__builtins__"] \cap DangerousBuiltins = {})
    /\ []("import" \notin hist.caps)
    /\ [][ImportStmt => /\ ret'.kind = "envelope"
                        /\ "error" \in DOMAIN ret'.env]_vars

\* C5: the namespace of a call holds nothing of earlier calls: every name
\* bound in it, other than the helper objects and __builtins__, was bound
\* by the running snippet; a name the snippet reads is a helper, a
\* whitelisted built-in or one it bound; `result` is reported only for a
\* snippet that bound it.
HelperNames ==
    { "pd", "pandas", "np", "numpy", "plt", "px", "plotly_express", "go",
      "plotly_graph_objects", "compose_dashboard" }

C5_FreshNamespace ==
    /\ pc \in {"exec", "harvest"} =>
          /\ DOMAIN sandbox_locals \ HelperNames \subseteq hist.mine
          /\ DOMAIN safe_globals \ {"__builtins__"} \subseteq hist.mine
    /\ hist.seen \subseteq HelperNames \cup allowed_builtins \cup hist.mine
    /\ (AtReturn /\ "result" \in DOMAIN ret.env) => "result" \in hist.mine

\* a call that reported `result` is followed by a completed call that binds
\* nothing and reports no `result`
C5_Witness ==
    /\ Completed
    /\ prev.kind = "ok" /\ prev.result
    /\ hist.mine = {}
    /\ "result" \notin DOMAIN ret.env

\* C6: the stdout of every envelope, of a completed and of a faulted call,
\* is the text the snippet printed, in the order it printed it.
C6_StdoutVerbatim ==
    AtReturn =>
        /\ "stdout" \in DOMAIN ret.env
        /\ ret.env["stdout"] = hist.printed

\* a faulted call that had printed a and then b
C6_Witness ==
    /\ AtReturn
    /\ "error" \in DOMAIN ret.env
    /\ ret.env["stdout"] = <<"a", "\n", "b", "\n">>

\* how the value bound to `result` has to appear in the envelope
ResultShownAs(v, shown) ==
    /\ v.kind = "frame" =>
          /\ shown["type"] = "dataframe"
          /\ shown["columns"] = v.columns
          /\ Len(shown["records"]) = Len(v.rows)
          /\ \A i \in DOMAIN v.rows : \A j \in DOMAIN v.columns :
                shown["records"][i][j] = <<v.columns[j], v.rows[i][j]>>
    /\ (v.kind = "int" /\ v.num = 2) => shown = <<"2">>
    /\ (v.kind = "int" /\ v.num = -13) => shown = <<"-", "1", "3">>

C8_FiguresInCreationOrder ==
    Completed =>
        Figures(ret.env) =
            [i \in 1..Len(hist.openDone) |-> B64(Png(hist.openDone[i]))]

\* C8 amended: after a completed snippet `figures` holds one PNG per open
\* figure, in ascending order of the figure numbers.
C8_FiguresInNumberOrder ==
    Completed =>
        LET F == Figures(ret.env)
        IN  /\ Len(F) = Len(hist.openDone)
            /\ \A i \in DOMAIN F : F[i] = B64(Png(FigureNumOf(F[i])))
            /\ { FigureNumOf(F[i]) : i \in DOMAIN F } = Range(hist.openDone)
            /\ \A i, j \in DOMAIN F :
                  i < j => FigureNumOf(F[i]) < FigureNumOf(F[j])

\* a completed call that created figure 2 before figure 1
C8_Witness ==
    /\ Completed
    /\ hist.openDone = <<2, 1>>
    /\ Len(Figures(ret.env)) = 2

C10_EveryCallReturns == (pc = "exec") ~> (pc = "idle")

\* ------------------------------------------------ properties of the catalog
\* C11: however the first callers of the catalog interleave, the directory
\* is scanned at most once and every caller is given the same catalog.
C11_LoadedOnce ==
    /\ scans <= 1
    /\ \A c, d \in Callers :
          (thr[c].view # 0 /\ thr[d].view # 0) => thr[c].view = thr[d].view

\* two threads of the host inside a catalog operation at the same time, both
\* given the catalog that the import loaded
C11_Witness ==
    /\ scans = 1
    /\ thr["t1"].pc = "answer" /\ thr["t2"].pc = "answer"
    /\ thr["t1"].view = cache.id /\ thr["t2"].view = cache.id

\* C12: once loaded, the catalog does not change: whatever lookups, source
\* changes and caller-side changes to returned values follow, every lookup
\* returns what it returned right after the load, and there is no second
\* scan.
C12_ImmutableAfterLoad ==
    cache.id # 0 =>
        /\ scans = 1
        /\ \A q \in Ids :
              get_dataset_metadata(cache.data, q)
                  = get_dataset_metadata(snap.data, q)

\* the catalog that a scan of the directory fs has to produce: every JSON
\* mapping under its normalised identifier, nothing else
HoldsEveryMapping(data, fs) ==
    /\ \A p \in DOMAIN fs :
          fs[p].kind = "mapping" => DatasetKey(fs[p], p) \in DOMAIN data
    /\ \A k \in DOMAIN data :
          \E p \in DOMAIN fs : fs[p] = data[k] /\ DatasetKey(fs[p], p) = k

\* C13: a load never fails, and with it no import and no lookup: documents
\* that do not parse are skipped, and the catalog holds every one that does
\* under its normalised identifier.
C13_LoadSkipsUnparsable ==
    /\ cpc # "crashed"
    /\ \A c \in Callers : thr[c].pc # "raised"
    /\ snap # <<>> => HoldsEveryMapping(snap.data, snap.files)

\* ------------------------------------- properties of lookups and routing
\* the identifier of the descriptor at path p: the explicit one, or for want
\* of one the name derived from the file
IdentifierOf(doc, p) ==
    LET explicit == Or(doc.dataset, doc.dataset_id)
    IN  IF explicit.t = "str" THEN explicit.s ELSE StemId(Stem(p))

\* C14: for every descriptor of the catalog with identifier d and every
\* query q with normalise(q) = normalise(d), get_dataset_metadata(q) returns
\* that descriptor; for a q that matches no descriptor it returns None.
C14_DatasetRoundTrip ==
    (fin # <<>> /\ fin.op = "dataset" /\ fout # <<>>) =>
        LET loaded == { p \in DOMAIN fout.files :
                          \E k \in DOMAIN fout.data :
                              fout.data[k] = fout.files[p] }
            Same(p) == normalise_identifier(fin.q)
                 = normalise_identifier(IdentifierOf(fout.files[p], p))
        IN  /\ \A p \in loaded : Same(p) => fout.r = fout.files[p]
            /\ (\A p \in loaded : ~Same(p)) => fout.r = None

\* a query that differs from the identifier in casing and qualification
\* finds the descriptor
C14_Witness ==
    /\ fin # <<>> /\ fin.op = "dataset" /\ fout # <<>>
    /\ fin.d = <<"A">> /\ fin.q = <<".", "a">>
    /\ fout.r # None /\ fout.r.description = "first"

\* what the lookup of table t has to give for tables ts of a dataset that
\* resolves (resolves = TRUE) or not: the first record in source order whose
\* normalised name is normalise(t)
FirstTable(ts, resolves, t) ==
    LET hits == { i \in DOMAIN ts :
                    /\ ts[i].rec
                    /\ normalise_identifier(ts[i].name)
                           = normalise_identifier(t) }
    IN  IF ~resolves \/ hits = {} THEN None
        ELSE [t |-> "info",
              s |-> <<<<"t1", "t2">>[CHOOSE i \in hits :
                                        \A j \in hits : i <= j]>>]

TableCall == fin # <<>> /\ fin.op = "table" /\ fout # <<>>

\* C15 as stated: get_table_metadata(d, t) is None when d does not resolve
\* or no table has the normalised name, otherwise the first such table in
\* source order, and the same for the mapping form and the list form.
C15_TableLookup ==
    TableCall =>
        LET expected == FirstTable(fin.tbls, fin.dq = <<"^", "A">>, fin.t)
        IN  fout.asDict = expected /\ fout.asList = expected

\* C15 amended: the same, for tables whose identifiers are not empty.
C15_TableLookupNamed ==
    (TableCall /\ \A i \in DOMAIN fin.tbls : fin.tbls[i].name # <<>>) =>
        LET expected == FirstTable(fin.tbls, fin.dq = <<"^", "A">>, fin.t)
        IN  fout.asDict = expected /\ fout.asList = expected

\* two tables whose names normalise alike, asked for under a third
\* spelling: both forms give the first
C15_Witness ==
    /\ TableCall
    /\ fin.dq = <<"^", "A">> /\ fin.t = <<"^", "a">>
    /\ Len(fin.tbls) = 2
    /\ fin.tbls[1] = [name |-> <<"A">>, rec |-> TRUE]
    /\ fin.tbls[2] = [name |-> <<"a">>, rec |-> TRUE]
    /\ fout.asDict = [t |-> "info", s |-> <<"t1">>]
    /\ fout.asList = fout.asDict

RouteCall == fin # <<>> /\ fin.op = "route" /\ fout # <<>>

\* C16: route_question_to_dataset decides by which vocabularies have a
\* keyword inside the lower-cased question: Microsoft 365 only gives
\* ms_graph and lists every matched keyword, workforce only gives gt_wf,
\* both give ms_graph and say that both matched and which is preferred,
\* neither gives no dataset and the fall-back reason; no reason is empty.
C16_RoutePolicy ==
    RouteCall =>
        LET text == [i \in 1..Len(fin.q) |->
                       CASE fin.q[i] = "Teams" -> "teams"
                         [] fin.q[i] = "Attrition" -> "attrition"
                         [] OTHER -> fin.q[i]]
            In(keywords) ==
                { i \in DOMAIN keywords : Occurs(keywords[i], text) }
            A == In(M365_KEYWORDS)
            B == In(WORKFORCE_KEYWORDS)
            listed == { fout.reason.keywords[i] :
                           i \in DOMAIN fout.reason.keywords }
        IN  /\ fout.reason.text # ""
            /\ (A # {} /\ B = {}) =>
                  /\ fout.dataset = "ms_graph"
                  /\ fout.reason.text = "Matched Microsoft 365 keywords"
                  /\ listed = { M365_KEYWORDS[i] : i \in A }
            /\ (A = {} /\ B # {}) => fout.dataset = "gt_wf"
            /\ (A # {} /\ B # {}) =>
                  /\ fout.dataset = "ms_graph"
                  /\ fout.reason.text =
                       "Matched both keyword groups; prioritising Microsoft 365 context by default"
            /\ (A = {} /\ B = {}) =>
                  /\ fout.dataset = "None"
                  /\ fout.reason.text =
                       "No routing keywords detected; fall back to general reasoning"

\* "Teams Attrition" matches both vocabularies and is routed to ms_graph
C16_Witness ==
    /\ RouteCall
    /\ fin.q = <<"Teams", " ", "Attrition">>
    /\ fout.dataset = "ms_graph"
    /\ fout.reason.keywords = <<>>

\* ----------------------------------------- properties of compose_dashboard
\* the chart the call failed at, if it failed inside the loop
FailedAt == IF cst.pc = "raised" /\ cst.grid # NoGrid THEN cst.index + 1 ELSE 0
\* the charts the loop has come to: those rendered and the one it failed at
Visited == { i \in 1..Len(cin.charts) : i <= cst.index \/ i = FailedAt }

\* C17: compose_dashboard with an empty list of charts raises the
\* ValueError about the charts whatever title, rows, cols and shared axes
\* it is given, before a grid is built; it never returns a figure made of no
\* charts.
C17_EmptyFails ==
    /\ (cin # <<>> /\ cin.charts = <<>> /\ cst.pc # "called") =>
          /\ cst.pc = "raised"
          /\ cst.exc = Exc("ValueError", "charts")
          /\ cst.grid = NoGrid
    /\ (cin # <<>> /\ cst.pc = "returned") => cin.charts # <<>>

\* the empty list with a grid size, a title and shared axes asked for
C17_Witness ==
    /\ cin # <<>> /\ cin.charts = <<>>
    /\ cin.title /\ cin.rows = 2 /\ cin.cols = 2
    /\ cin.shared_x /\ cin.shared_y
    /\ cst.pc = "raised" /\ cst.grid = NoGrid

\* C18: rows that is not given is len(charts) and cols that is not given is
\* 1; the chart at zero-based index i is placed at the row and col its
\* specification gives and otherwise at row i // cols + 1, col i % cols + 1.
C18_Placement ==
    cin # <<>> =>
        LET rows == IF cin.rows = 0 THEN Len(cin.charts) ELSE cin.rows
            cols == IF cin.cols = 0 THEN 1 ELSE cin.cols
        IN  /\ cst.grid # NoGrid => cst.grid = <<rows, cols>>
            /\ Len(cst.placed) = cst.index
            /\ \A n \in DOMAIN cst.placed :
                  LET i == n - 1
                      chart == cin.charts[n]
                  IN  /\ cst.placed[n].row =
                            IF chart.row # 0 THEN chart.row
                            ELSE (i \div cols) + 1
                      /\ cst.placed[n].col =
                            IF chart.col # 0 THEN chart.col
                            ELSE (i % cols) + 1

\* four charts without placement and cols = 2: chart 2 is at (2,1) and
\* chart 3 at (2,2), in a grid of len(charts) rows
C18_Witness ==
    /\ cin # <<>> /\ Len(cin.charts) = 4
    /\ \A n \in 1..4 : cin.charts[n].type = "bar" /\ cin.charts[n].row = 0
                         /\ cin.charts[n].col = 0
                         /\ cin.charts[n].data = "frame"
    /\ cin.rows = 0 /\ cin.cols = 2
    /\ cst.pc = "returned" /\ cst.grid = <<4, 2>>
    /\ cst.placed[3].row = 2 /\ cst.placed[3].col = 1
    /\ cst.placed[4].row = 2 /\ cst.placed[4].col = 2

\* C19: a chart whose type is no supported chart kind makes the call fail
\* with the error about an unknown chart type that names the type, and only
\* a supported chart kind selects a function to render with.
C19_ClosedRegistry ==
    cin # <<>> =>
        /\ \A n \in Visited :
              (cin.charts[n].type # "absent"
                 /\ px_getattr(cin.charts[n].type) # "function") =>
                  /\ FailedAt = n
                  /\ cst.exc = Exc("ValueError", cin.charts[n].type)
        /\ \A n \in DOMAIN cst.funcs :
              cst.funcs[n] # "None" =>
                  px_getattr(chart_type_of(cin.charts[n])) = "function"

\* C20 as stated: a chart that lacks `type` or `data` makes the call fail
\* with a ValueError and is never rendered.
C20_RequiredFields ==
    cin # <<>> =>
        \A n \in Visited :
            (cin.charts[n].type = "absent" \/ cin.charts[n].data = "absent") =>
                /\ FailedAt = n
                /\ cst.exc.type = "ValueError"

\* C20 amended: a chart that lacks `data` makes the call fail with a
\* ValueError and is never rendered; a chart that lacks only `type` is
\* rendered as a bar chart.
C20_DataRequired ==
    cin # <<>> =>
        \A n \in Visited :
            /\ cin.charts[n].data = "absent" =>
                  /\ FailedAt = n
                  /\ cst.exc.type = "ValueError"
            /\ (cin.charts[n].type = "absent" /\ n <= cst.index) =>
                  cst.placed[n].type = "bar"

\* a chart without data after one that rendered
C20_Witness ==
    /\ cin # <<>> /\ Len(cin.charts) = 2
    /\ cin.charts[1] = Chart("absent", "frame", 2, 0)
    /\ cin.charts[2] = Chart("bar", "absent", 0, 0)
    /\ cst.pc = "raised" /\ cst.exc = Exc("ValueError", "data")
    /\ Len(cst.placed) = 1 /\ cst.placed[1].type = "bar"

\* C21: without a chart title the figure has no subplot titles; with one,
\* the title of every titled chart is the subplot title of the cell the
\* chart is placed in, by default and by its own row and col.
C21_TitlesFollowCharts ==
    (cin # <<>> /\ cst.grid # NoGrid) =>
        /\ (\A n \in DOMAIN cin.charts : cin.charts[n].title = "") =>
              cst.subplot_titles = <<>>
        /\ \A n \in DOMAIN cst.placed :
              cin.charts[n].title # "" =>
                  TitleAt(cst.subplot_titles, cst.grid,
                          cst.placed[n].row, cst.placed[n].col)
                      = cin.charts[n].title

\* C22: compose_dashboard leaves the chart specifications of its caller as
\* they were given, while it runs, when it returns and when it raises.
C22_SpecsUnchanged == cin # <<>> => cin.charts = cst.given

\* a chart with params has been rendered, and the call then failed at the
\* next chart
C22_Witness ==
    /\ cin # <<>> /\ Len(cin.charts) = 2
    /\ cin.charts[1].params = {"x"} /\ cin.charts[2].type = "__name__"
    /\ cst.pc = "raised" /\ cst.index = 1
    /\ cst.exc = Exc("TypeError", "not callable")

\* the calls of C30: rows not given and no chart with a row or col
DefaultLayout ==
    /\ cin # <<>> /\ cin.rows = 0
    /\ \A n \in DOMAIN cin.charts :
          cin.charts[n].row = 0 /\ cin.charts[n].col = 0

\* C30: when rows is not given and no chart has a row or col, every chart's
\* cell lies inside the grid of len(charts) rows and cols columns and no
\* two charts share a cell.
C30_DefaultCellsFit ==
    DefaultLayout =>
        /\ cst.exc.about # "add_trace"
        /\ cst.grid # NoGrid =>
              cst.grid = <<Len(cin.charts),
                           IF cin.cols = 0 THEN 1 ELSE cin.cols>>
        /\ \A n \in DOMAIN cst.placed :
              /\ cst.placed[n].row \in 1..Len(cin.charts)
              /\ cst.placed[n].col \in 1..cst.grid[2]
              /\ \A m \in DOMAIN cst.placed :
                    (cst.placed[m].row = cst.placed[n].row
                       /\ cst.placed[m].col = cst.placed[n].col) => m = n

\* three charts in two columns: (1,1), (1,2), (2,1) of a 3 x 2 grid
C30_Witness ==
    /\ DefaultLayout /\ Len(cin.charts) = 3 /\ cin.cols = 2
    /\ cst.pc = "returned" /\ cst.grid = <<3, 2>>
    /\ cst.placed[2].row = 1 /\ cst.placed[2].col = 2
    /\ cst.placed[3].row = 2 /\ cst.placed[3].col = 1

\* ------------------------------ properties of the planner and the summary
PlanCall == fin # <<>> /\ fin.op = "plan" /\ fout # <<>>
\* the tables of the dataset the plan was routed to, in source order
RoutedTables ==
    LET key == <<fout.plan.recommended_dataset>>
    IN  IF key \in DOMAIN fout.data
        THEN iter_table_entries(fout.data[key].tables) ELSE <<>>
PlanTableNames ==
    [i \in DOMAIN fout.plan.recommended_tables |->
        fout.plan.recommended_tables[i].table]

\* C23: the plan's recommended_dataset and routing_reason are those of
\* route(question) for a non-empty question and of route(objective)
\* otherwise; when no dataset is routed to, or one without a descriptor, the
\* plan is still returned, without tables and visualisations.
C23_PlanRoutes ==
    PlanCall =>
        LET text == IF fin.question.t = "str" /\ fin.question.s # <<>>
                    THEN fin.question.s ELSE fin.objective
            routed == route_question_to_dataset(text)
        IN  /\ fout.plan.recommended_dataset = routed.dataset
            /\ fout.plan.routing_reason = routed.reason
            /\ (routed.dataset = "None"
                  \/ <<routed.dataset>> \notin DOMAIN fout.data) =>
                  /\ fout.plan.recommended_tables = <<>>
                  /\ fout.plan.visualisations = <<>>

\* an empty question: the objective is routed, to a dataset that has no
\* descriptor
C23_Witness ==
    /\ PlanCall
    /\ fin.question = Str(<<>>) /\ fin.objective = <<"Attrition">>
    /\ fin.n = 2
    /\ fout.plan.recommended_dataset = "gt_wf"
    /\ fout.plan.recommended_tables = <<>>

\* the names of the tables a plan has to recommend: those named by the
\* focus tables, or the first four
TablesFor(focused) ==
    LET names == [i \in DOMAIN RoutedTables |-> RoutedTables[i][1]]
        wanted == { normalise_identifier(fin.focus_tables.names[i]) :
                       i \in DOMAIN fin.focus_tables.names }
    IN  IF focused THEN SelectSeq(names, LAMBDA x : x \in wanted)
        ELSE SubSeq(names, 1, IF Len(names) < 4 THEN Len(names) ELSE 4)

\* C24 as stated: when the routed dataset resolves, the recommended tables
\* are exactly those named by the normalised focus tables if focus tables
\* are given, and otherwise the first min(4, number of tables) tables.
C24_PlanTables ==
    PlanCall => PlanTableNames = TablesFor(fin.focus_tables.given)

\* C24 amended: exactly those named by the focus tables if a non-empty list
\* of focus tables is given, and otherwise (no list, or an empty one) the
\* first min(4, number of tables) tables.
C24_PlanTablesNonEmptyFocus ==
    PlanCall => PlanTableNames = TablesFor(fin.focus_tables.names # <<>>)

\* five tables, a focus on the second and on a table that does not exist
C24_Witness ==
    /\ PlanCall /\ fin.n = 5 /\ Len(fin.focus_tables.names) = 2
    /\ fout.plan.recommended_dataset = "ms_graph"
    /\ PlanTableNames = << <<"a", "a">> >>

\* C25: every column of a recommended table's descriptor is in exactly one
\* of numeric_columns and categorical_columns, numeric iff its lower-cased
\* declared dtype is in the numeric vocabulary, and both lists keep the
\* source order; for columns given as a mapping and as a list.
C25_ColumnPartition ==
    PlanCall =>
        \A n \in DOMAIN fout.plan.recommended_tables :
            LET table == fout.plan.recommended_tables[n]
                info  == (CHOOSE e \in { RoutedTables[i] :
                                           i \in DOMAIN RoutedTables } :
                              e[1] = table.table)[2]
                dict  == info.columns.form = "dict"
                Name(c) == IF dict \/ c.kind = "str" THEN c.key
                           ELSE Or(c.name, c.column).s
                cols  == SelectSeq(info.columns.items,
                                   LAMBDA c : dict \/ Name(c) # <<>>)
                names == [i \in DOMAIN cols |-> Name(cols[i])]
                In(x, list) == \E i \in DOMAIN list : list[i] = x
                Declared(c) == Or(Or(c.type, c.data_type), Str(<<>>))
                numeric == table.numeric_columns
                categorical == table.categorical_columns
            IN  /\ \A i \in DOMAIN cols :
                      /\ In(names[i], numeric) # In(names[i], categorical)
                      /\ cols[i].kind = "dict" =>
                            (In(names[i], numeric) <=>
                                /\ Declared(cols[i]).t = "str"
                                /\ [j \in DOMAIN Declared(cols[i]).s |->
                                       CASE Declared(cols[i]).s[j] = "INT64"
                                              -> "int64"
                                         [] Declared(cols[i]).s[j] = "Float"
                                              -> "float"
                                         [] OTHER -> Declared(cols[i]).s[j]]
                                     \in NUMERIC_TYPES)
                /\ numeric = SelectSeq(names, LAMBDA x : In(x, numeric))
                /\ categorical = SelectSeq(names, LAMBDA x : In(x, categorical))

SummaryCall == fin # <<>> /\ fin.op = "summary" /\ fout # <<>>

\* a summary as C27 wants it, for the catalog data
SummaryInOrder(summary, data) ==
    LET lines == summary.lines
        heads == { p \in DOMAIN lines : lines[p].kind = "dataset" }
        Before(s, t) ==
            \E i \in 1..(Len(s) + 1) :
                /\ i <= Len(t)
                /\ \A j \in 1..(i - 1) : s[j] = t[j]
                /\ i = Len(s) + 1 \/ (s[i] = "a" /\ t[i] = "b")
        ColumnNames(columns) ==
            LET named == SelectSeq(columns.items, LAMBDA c :
                             \/ columns.form = "dict"
                             \/ c.kind = "str"
                             \/ c.kind = "dict" /\ Truthy(Or(c.name, c.column)))
            IN  [i \in DOMAIN named |->
                    IF columns.form = "dict" \/ named[i].kind = "str"
                    THEN named[i].key
                    ELSE Or(named[i].name, named[i].column).s]
    IN  /\ summary.exc = ""
        /\ { lines[p].id : p \in heads } = DOMAIN data
        /\ \A p, q \in heads : p < q => Before(lines[p].id, lines[q].id)
        /\ \A p \in heads :
              LET entries == iter_table_entries(data[lines[p].id].tables)
              IN  /\ p + Len(entries) <= Len(lines)
                  /\ p + Len(entries) < Len(lines) =>
                        (p + Len(entries) + 1) \in heads
                  /\ \A i \in DOMAIN entries :
                        LET all == ColumnNames(entries[i][2].columns)
                        IN  /\ lines[p + i].kind = "table"
                            /\ lines[p + i].id = entries[i][1]
                            /\ Len(lines[p + i].cols) <= 5
                            /\ lines[p + i].cols =
                                 SubSeq(all, 1, IF Len(all) < 5 THEN Len(all)
                                                ELSE 5)

\* C27: the summary lists the datasets in ascending order of their
\* normalised identifiers and the tables of each in source order, and names
\* for every table its first five column names in source order, no more;
\* in the data analyst app and in the winsights agent.
C27_SummaryBounded ==
    SummaryCall =>
        /\ SummaryInOrder(fout.data_analyst, fout.data)
        /\ SummaryInOrder(fout.winsights, fout.data)

\* C29: the catalog has one entry for a normalised dataset identifier; of
\* the documents that normalise to the same identifier the one whose path
\* sorts last is the entry, and no lookup and no summary gives another.
C29_LastDocumentWins ==
    (fin # <<>> /\ fin.op \in {"dataset", "summary"} /\ fout # <<>>) =>
        \A p, q \in DOMAIN fout.files :
            (p < q /\ DatasetKey(fout.files[p], p)
                          = DatasetKey(fout.files[q], q)) =>
                LET key == DatasetKey(fout.files[q], q)
                IN  /\ fout.data[key] = fout.files[q]
                    /\ \A k \in DOMAIN fout.data :
                          fout.data[k] # fout.files[p]
                    /\ fin.op = "dataset" => fout.r # fout.files[p]
                    /\ fin.op = "summary" =>
                          Cardinality({ i \in DOMAIN fout.data_analyst.lines :
                              /\ fout.data_analyst.lines[i].kind = "dataset"
                              /\ fout.data_analyst.lines[i].id = key }) = 1

\* two documents that normalise to "b", looked up as "B": the second
C29_Witness ==
    /\ fin # <<>> /\ fin.op = "dataset" /\ fout # <<>>
    /\ fin.other /\ fin.d = <<".", "b">> /\ fin.q = <<"b">>
    /\ DOMAIN fout.data = { <<"b">> }
    /\ fout.r.description = "second"

\* what the snippet of call t prints and draws, marked with t
OwnOutput(t, kind) ==
    LET own == SelectSeq(ov.call[t].code, LAMBDA stmt : stmt = kind)
    IN  [i \in DOMAIN own |-> t]

\* C28: when two calls of run_python_analysis overlap, the envelope of each
\* holds exactly the text its own snippet printed and the figures its own
\* snippet drew.
C28_OwnOutputOnly ==
    (ov # <<>> /\ ov.overlap) =>
        \A t \in Threads :
            ov.call[t].pc = "done" =>
                /\ ov.call[t].payload.stdout = OwnOutput(t, "print")
                /\ ov.call[t].payload.figures = OwnOutput(t, "plot")
====
